---- MODULE Spec2Model ----
(***************************************************************************)
(* State-machine model of client/src/pages/BookSlot.tsx: the booking form  *)
(* (formData), its four warning slots, the asynchronous conflict checks    *)
(* and the booking submission.                                             *)
(*                                                                         *)
(* Encodings.  A JavaScript string that may be '' is a sequence: <<>> is   *)
(* '' and a date "YYYY-MM-DD" is <<d>> with d the day number since         *)
(* 1970-01-01; a time "HH:MM" is the tuple of its four digits.  An instant *)
(* (Date.getTime()) is counted in minutes since the epoch, UTC.  One       *)
(* action is one event handler together with the effects React runs for    *)
(* the dependencies the handler changed.                                   *)
(***************************************************************************)
EXTENDS Integers, Sequences, FiniteSets, TLC

VARIABLES formData, warnings, isSubmitting, selectedDate, metaError,
          clubs, venues, metaPc, pending, inflight, toast,
          currentUser, tz, today, tod

\* formData, warnings, isSubmitting, selectedDate, metaError, clubs, venues:
\*   the useState cells of the component
\* metaPc       "loading" until fetchMeta has been answered
\* pending      the conflict checks awaiting their response, each the request
\*              checkConflicts built; responses arrive in any order
\* inflight     the number of POST /api/bookings requests awaiting their answer
\* toast        the toast raised by the latest step
\* currentUser  the prop of the component
\* tz           the client's offset from UTC in minutes
\* today, tod   the local calendar day and time of day of the wall clock
vars == <<formData, warnings, isSubmitting, selectedDate, metaError,
          clubs, venues, metaPc, pending, inflight, toast,
          currentUser, tz, today, tod>>

(***************************************************************************)
(* Bounds of the model.                                                    *)
(***************************************************************************)
\* conflict checks that may be awaiting their response at the same time
MaxPending == 2
\* requests to the booking sink that the model lets be outstanding
MaxInflight == 2
\* the earliest day number the date string is followed down to
MinDay == 4
\* the same floor for the behaviours that pick a date five days ahead
MinDayLead == 7

DayMinutes == 1440

\* time-zone offsets of the client, minutes east of UTC
TimeZones == {-300, 0, 330}
\* the local calendar day of the session (1970-01-04, a Sunday)
Todays == {3}
\* local times of day at which the clock is read, in minutes
Tods == {60, 720}
\* days the user picks in the calendar, counted from today
DayOffsets == {2}
LeadDayOffsets == {5}
\* the same, for the runs that walk through the policies' boundaries
PolicyDayOffsets == {0, 1, 2, 5, 19, 20, 29, 30}

EventTypes == {"closed_club", "open_all", "co_curricular"}

T0745 == <<0, 7, 4, 5>>
T0800 == <<0, 8, 0, 0>>
T1545 == <<1, 5, 4, 5>>
T1600 == <<1, 6, 0, 0>>
T1800 == <<1, 8, 0, 0>>
T1700 == <<1, 7, 0, 0>>
\* the entries of TIME_OPTIONS the model selects
StartOptions == {T1545, T1700}
EndOptions == {T1800}
\* the same, for the runs that walk through the policies' boundaries
PolicyStartOptions == {T0745, T0800, T1545, T1600}
PolicyEndOptions == {T0800, T1800}

Users == { [role |-> "club", name |-> "Alpha"],
           [role |-> "admin", name |-> "Admin"] }

\* the answer of GET /api/clubs and GET /api/venues
ApiClubs == << [id |-> "c1", name |-> "Alpha"] >>
ApiVenueLists ==
  { << [id |-> "v1", category |-> "A"], [id |-> "v2", category |-> "needs_approval"] >> }
\* the same, for the runs that walk through the policies' boundaries
PolicyApiVenueLists ==
  { << [id |-> "v1", category |-> "A"], [id |-> "v2", category |-> "B"] >>,
    << [id |-> "v1", category |-> "auto_approval"],
       [id |-> "v2", category |-> "needs_approval"] >> }

\* VENUES of ../constants, the fallback table of getVenueCategory
VENUES == << [id |-> "v1", category |-> "A"], [id |-> "v2", category |-> "B"] >>

\* messages the scheduling authority sends with hasConflict = true
ConflictMessages == {"Venue already booked for this slot.", ""}

MsgCoCurricular == "Co-curricular events must be booked at least 30 days in advance."
MsgOpenAll == "Open-for-All events must be booked at least 20 days in advance."
MsgClosedClub == "Closed club events must be booked at least 1 day in advance."
MsgOrder == "End time must be after start time."
MsgWeekend == "On weekends, bookings are allowed from 8:00 AM to 12:00 AM."
MsgWeekday == "On weekdays, bookings are only allowed from 4:00 PM to 12:00 AM."
MsgCategoryB == "Includes Category B Venue(s): Requires Sleazzy Convener & Faculty Approval."
MsgCategoryA == "Category A Venues: Direct booking available (Subject to vacancy)."
MsgNoVerify == "Could not verify conflicts. Please check your connection and try again."
ToastResolve == "Please resolve the warnings before submitting."
ToastNoVenue == "Please select at least one venue."
ToastSuccess == "Booking request submitted successfully!"
ToastFailed == "Failed to submit booking. Please try again."

(***************************************************************************)
(* JavaScript primitives.                                                  *)
(***************************************************************************)
\* a < b on strings: by code unit, a proper prefix is smaller
RECURSIVE StrLess(_, _)
StrLess(a, b) ==
  IF b = <<>> THEN FALSE
  ELSE IF a = <<>> THEN TRUE
  ELSE IF Head(a) # Head(b) THEN Head(a) < Head(b)
  ELSE StrLess(Tail(a), Tail(b))

StrLeq(a, b) == a = b \/ StrLess(a, b)

\* Math.ceil(x / n) for n > 0
CeilDiv(x, n) == -((-x) \div n)

\* the instant at which the local clock shows time of day t of today
NowAt(t) == today * DayMinutes + t - tz

\* new Date(): the instant of the wall clock
Now == NowAt(tod)

\* new Date("YYYY-MM-DD"): a date-only string is read as UTC midnight
ParseDate(d) == d * DayMinutes

\* the local midnight of day d, the Date the calendar hands to onSelect
LocalMidnight(d) == d * DayMinutes - tz

\* getFullYear/getMonth/getDate: the local calendar day of an instant
LocalDay(t) == (t + tz) \div DayMinutes

\* Date.getDay(): 0 is Sunday; 1970-01-01 was a Thursday
GetDay(t) == (LocalDay(t) + 4) % 7

\* minutes of "HH:MM"
TimeMinutes(t) == (t[1] * 10 + t[2]) * 60 + t[3] * 10 + t[4]

\* new Date(`${date}T${time}:00`): a date-time string is read as local time
ParseDateTime(d, t) == d * DayMinutes + TimeMinutes(t) - tz

\* Array.prototype.find on a list of records with an id / a name
FindById(list, id) ==
  LET hits == {i \in 1..Len(list) : list[i].id = id}
  IN IF hits = {} THEN <<>>
     ELSE <<list[CHOOSE i \in hits : \A j \in hits : i <= j]>>

FindByName(list, name) ==
  LET hits == {i \in 1..Len(list) : list[i].name = name}
  IN IF hits = {} THEN <<>>
     ELSE <<list[CHOOSE i \in hits : \A j \in hits : i <= j]>>

Includes(s, x) == \E i \in 1..Len(s) : s[i] = x

Filter(s, x) == SelectSeq(s, LAMBDA y : y # x)


(***************************************************************************)
(* Catalog lookups.                                                        *)
(***************************************************************************)
\* the value of an optional string that is absent
Undefined == "undefined"

Falsy(str) == str = "" \/ str = Undefined

normalizeVenueCategory(category) ==
  IF Falsy(category) THEN Undefined
  ELSE IF category = "auto_approval" THEN "A"
  ELSE IF category = "needs_approval" THEN "B"
  ELSE category

getVenueCategory(id) ==
  LET hit == FindById(venues, id)
      apiCategory == IF hit = <<>> THEN Undefined ELSE hit[1].category
      normalized == normalizeVenueCategory(apiCategory)
      fallback == FindById(VENUES, id)
  IN IF ~Falsy(normalized) THEN normalized
     ELSE IF fallback = <<>> THEN Undefined ELSE fallback[1].category

(***************************************************************************)
(* The effects.  Each takes the form data of the render and the warnings   *)
(* so far and gives the warnings after its setWarnings call.               *)
(***************************************************************************)
\* diffDays of the Timeline Validation effect, evaluated at instant now
DiffDays(date, now) == CeilDiv(ParseDate(date[1]) - now, DayMinutes)

\* the closed-club rule with a three-day notice
TimelineMessageThreeDays(eventType, diffDays) ==
  IF eventType = "co_curricular" /\ diffDays < 30 THEN MsgCoCurricular
  ELSE IF eventType = "open_all" /\ diffDays < 20 THEN MsgOpenAll
  ELSE IF eventType = "closed_club" /\ diffDays < 3 THEN MsgClosedClub
  ELSE ""

TimelineMessage(eventType, diffDays) ==
  IF eventType = "co_curricular" /\ diffDays < 30 THEN MsgCoCurricular
  ELSE IF eventType = "open_all" /\ diffDays < 20 THEN MsgOpenAll
  ELSE IF eventType = "closed_club" /\ diffDays < 1 THEN MsgClosedClub
  ELSE ""

TimelineEffect(fd, w) ==
  IF fd.date = <<>> THEN w
  ELSE [w EXCEPT !.timeline = TimelineMessage(fd.eventType, DiffDays(fd.date, Now))]

\* the venue effect asking every venue, not some venue, to be Category B
VenueEffectEvery(fd, w) ==
  IF Len(fd.venueIds) = 0 THEN [w EXCEPT !.venue = "", !.venueType = ""]
  ELSE LET hasCategoryB ==
             \A i \in 1..Len(fd.venueIds) :
                getVenueCategory(fd.venueIds[i]) \in {"B", "needs_approval"}
       IN IF hasCategoryB
          THEN [w EXCEPT !.venue = MsgCategoryB, !.venueType = "warning"]
          ELSE [w EXCEPT !.venue = MsgCategoryA, !.venueType = "success"]

VenueEffect(fd, w) ==
  IF Len(fd.venueIds) = 0 THEN [w EXCEPT !.venue = "", !.venueType = ""]
  ELSE LET hasCategoryB ==
             \E i \in 1..Len(fd.venueIds) :
                getVenueCategory(fd.venueIds[i]) \in {"B", "needs_approval"}
       IN IF hasCategoryB
          THEN [w EXCEPT !.venue = MsgCategoryB, !.venueType = "warning"]
          ELSE [w EXCEPT !.venue = MsgCategoryA, !.venueType = "success"]

\* the hours rule with the ordering test as end < start
HoursMessageStrictOrder(date, start, end) ==
  LET day == GetDay(ParseDate(date[1]))
      isWeekend == day = 0 \/ day = 6
  IN IF StrLess(end, start) THEN MsgOrder
     ELSE IF isWeekend
          THEN (IF StrLess(start, T0800) THEN MsgWeekend ELSE "")
          ELSE (IF StrLess(start, T1600) THEN MsgWeekday ELSE "")

HoursMessage(date, start, end) ==
  LET day == GetDay(ParseDate(date[1]))
      isWeekend == day = 0 \/ day = 6
  IN IF StrLeq(end, start) THEN MsgOrder
     ELSE IF isWeekend
          THEN (IF StrLess(start, T0800) THEN MsgWeekend ELSE "")
          ELSE (IF StrLess(start, T1600) THEN MsgWeekday ELSE "")

\* the Hours effect guarding on the date only
HoursEffectDateOnly(fd, w) ==
  IF fd.date = <<>>
  THEN [w EXCEPT !.hours = ""]
  ELSE [w EXCEPT !.hours = HoursMessage(fd.date, fd.startTime, fd.endTime)]

HoursEffect(fd, w) ==
  IF fd.date = <<>> \/ fd.startTime = <<>> \/ fd.endTime = <<>>
  THEN [w EXCEPT !.hours = ""]
  ELSE [w EXCEPT !.hours = HoursMessage(fd.date, fd.startTime, fd.endTime)]

\* the guard of the Conflict Logic effect: a field of the check is missing
ConflictInputMissing(fd) ==
  fd.date = <<>> \/ fd.startTime = <<>> \/ fd.endTime = <<>> \/ fd.clubName = ""

ConflictEffect(fd, w) ==
  IF ConflictInputMissing(fd) THEN [w EXCEPT !.conflict = ""] ELSE w

\* the request checkConflicts sends, with the form data it was built from
ConflictQuery(fd) ==
  LET club == FindByName(clubs, fd.clubName)
  IN [date |-> fd.date, startTime |-> fd.startTime, endTime |-> fd.endTime,
      clubName |-> fd.clubName, venueIds |-> fd.venueIds,
      startISO |-> ParseDateTime(fd.date[1], fd.startTime),
      endISO |-> ParseDateTime(fd.date[1], fd.endTime),
      clubId |-> IF club = <<>> THEN "" ELSE club[1].id]

checkConflicts(fd) ==
  IF ConflictInputMissing(fd) THEN {} ELSE {ConflictQuery(fd)}

\* the dependency arrays of the effects
\* the Timeline dependency array without the event type
TimelineDepsDateOnly(fd) == <<fd.date>>

TimelineDeps(fd) == <<fd.date, fd.eventType>>
VenueDeps(fd) == <<fd.venueIds>>
HoursDeps(fd) == <<fd.date, fd.startTime, fd.endTime>>
ConflictDeps(fd) == <<fd.date, fd.startTime, fd.endTime, fd.clubName, fd.venueIds>>

\* the warnings after the effects whose dependencies differ between the
\* renders of old and new have run
RunEffects(old, new, w) ==
  LET w1 == IF TimelineDeps(old) # TimelineDeps(new) THEN TimelineEffect(new, w) ELSE w
      w2 == IF VenueDeps(old) # VenueDeps(new) THEN VenueEffect(new, w1) ELSE w1
      w3 == IF HoursDeps(old) # HoursDeps(new) THEN HoursEffect(new, w2) ELSE w2
  IN IF ConflictDeps(old) # ConflictDeps(new) THEN ConflictEffect(new, w3) ELSE w3

IssuedChecks(old, new) ==
  IF ConflictDeps(old) # ConflictDeps(new) THEN checkConflicts(new) ELSE {}

\* hasErrors that counts a venue warning as an error
hasErrorsWithVenue ==
  warnings.timeline # "" \/ warnings.conflict # "" \/ warnings.hours # ""
    \/ warnings.venueType = "warning"

\* hasErrors of the render
hasErrors == warnings.timeline # "" \/ warnings.conflict # "" \/ warnings.hours # ""

\* the first guard without the hours slot
SubmitBlockedNoHours == warnings.timeline # "" \/ warnings.conflict # ""

\* the first guard of handleSubmit
SubmitBlocked == warnings.timeline # "" \/ warnings.conflict # "" \/ warnings.hours # ""

\* the second guard left out
AlreadySubmittingNever == FALSE

\* the second guard of handleSubmit
AlreadySubmitting == isSubmitting

(***************************************************************************)
(* Initial state: the component after its mount effects.                   *)
(***************************************************************************)
Init ==
  /\ currentUser \in Users
  /\ tz \in TimeZones
  /\ today \in Todays
  /\ tod = CHOOSE t \in Tods : \A u \in Tods : t <= u
  /\ formData = [eventType |-> "closed_club",
                 clubName |-> IF currentUser.role = "club" THEN currentUser.name ELSE "",
                 date |-> <<>>, startTime |-> <<>>, endTime |-> <<>>,
                 venueIds |-> <<>>]
  /\ warnings = [timeline |-> "", conflict |-> "", venue |-> "",
                 venueType |-> "", hours |-> ""]
  /\ isSubmitting = FALSE
  /\ selectedDate = <<>>
  /\ metaError = ""
  /\ clubs = <<>>
  /\ venues = <<>>
  /\ metaPc = "loading"
  /\ pending = {}
  /\ inflight = 0
  /\ toast = ""

(***************************************************************************)
(* Actions.  toast is the toast the latest step raised, "" if it raised    *)
(* none.                                                                   *)
(***************************************************************************)
\* setFormData(new) and the effects of the render that follows; sel is the
\* selected date before the date-parsing effect
Commit(new, sel) ==
  /\ Cardinality(pending \cup IssuedChecks(formData, new)) <= MaxPending
  /\ formData' = new
  /\ warnings' = RunEffects(formData, new, warnings)
  /\ pending' = pending \cup IssuedChecks(formData, new)
  /\ selectedDate' = IF new.date # formData.date /\ new.date # <<>>
                     THEN <<ParseDate(new.date[1])>>
                     ELSE sel
  /\ toast' = ""

\* what an edit of the form leaves alone
Unedited == <<isSubmitting, metaError, clubs, venues, metaPc, inflight,
              currentUser, tz, today, tod>>

\* the clock moves on to a later time of the same day; the other runs keep
\* the time of day of the page load
Tick ==
  /\ \E t \in Tods : t > tod /\ tod' = t
  /\ UNCHANGED <<formData, warnings, isSubmitting, selectedDate, metaError,
                 clubs, venues, metaPc, pending, inflight, toast,
                 currentUser, tz, today>>

\* fetchMeta: both requests answered
FetchMetaOkWith(venueLists) ==
  /\ metaPc = "loading"
  /\ metaPc' = "done"
  /\ clubs' = ApiClubs
  /\ \E vs \in venueLists : venues' = vs
  /\ toast' = ""
  /\ UNCHANGED <<formData, warnings, isSubmitting, selectedDate, metaError,
                 pending, inflight, currentUser, tz, today, tod>>

FetchMetaOk == FetchMetaOkWith(ApiVenueLists)

\* fetchMeta: a request failed
FetchMetaFail ==
  /\ metaPc = "loading"
  /\ metaPc' = "done"
  /\ metaError' = "Failed to load clubs and venues. Please refresh the page."
  /\ toast' = ""
  /\ UNCHANGED <<formData, warnings, isSubmitting, selectedDate, clubs, venues,
                 pending, inflight, currentUser, tz, today, tod>>

\* handleChange('eventType', v)
ChangeEventType ==
  /\ \E v \in EventTypes :
       /\ v # formData.eventType
       /\ Commit([formData EXCEPT !.eventType = v], selectedDate)
  /\ UNCHANGED Unedited

\* handleChange('clubName', v): the select of a user who is not a club
ChangeClub ==
  /\ currentUser.role # "club"
  /\ \E i \in 1..Len(clubs) :
       /\ clubs[i].name # formData.clubName
       /\ Commit([formData EXCEPT !.clubName = clubs[i].name], selectedDate)
  /\ UNCHANGED Unedited

\* handleChange('startTime', v)
ChangeStartTo(options) ==
  /\ \E v \in options :
       /\ v # formData.startTime
       /\ Commit([formData EXCEPT !.startTime = v], selectedDate)
  /\ UNCHANGED Unedited

ChangeStart == ChangeStartTo(StartOptions)

\* handleChange('endTime', v)
ChangeEndTo(options) ==
  /\ \E v \in options :
       /\ v # formData.endTime
       /\ Commit([formData EXCEPT !.endTime = v], selectedDate)
  /\ UNCHANGED Unedited

ChangeEnd == ChangeEndTo(EndOptions)

\* a toggle that always adds
handleVenueToggleAppend(current, venueId) == Append(current, venueId)

handleVenueToggle(current, venueId) ==
  IF Includes(current, venueId) THEN Filter(current, venueId)
  ELSE Append(current, venueId)

\* a click on a venue of the two lists, or on the cross of a badge
ToggleVenue ==
  /\ \E i \in 1..Len(venues) :
       /\ normalizeVenueCategory(venues[i].category) \in {"A", "B"}
       /\ Commit([formData EXCEPT
                    !.venueIds = handleVenueToggle(formData.venueIds, venues[i].id)],
                 selectedDate)
  /\ UNCHANGED Unedited

\* the calendar's onSelect with a day that is not disabled, and the effect
\* that writes the day into formData.date
PickDateFrom(offsets) ==
  /\ \E k \in offsets :
       LET picked == LocalMidnight(today + k)
       IN /\ picked >= LocalMidnight(today)
          /\ Commit([formData EXCEPT !.date = <<LocalDay(picked)>>], <<picked>>)
  /\ UNCHANGED Unedited

PickDate == PickDateFrom(DayOffsets)

\* the date-formatting effect run again for the Date object that the
\* date-parsing effect has set
DateSyncAbove(floor) ==
  /\ selectedDate # <<>>
  /\ <<LocalDay(selectedDate[1])>> # formData.date
  /\ LocalDay(selectedDate[1]) >= floor
  /\ Commit([formData EXCEPT !.date = <<LocalDay(selectedDate[1])>>], selectedDate)
  /\ UNCHANGED Unedited

DateSync == DateSyncAbove(MinDay)

\* what the rest of checkConflicts makes of the answer of the awaited request
ConflictResult(w, hasConflict, message) ==
  IF hasConflict THEN [w EXCEPT !.conflict = message]
  ELSE [w EXCEPT !.conflict = ""]

\* the response to a conflict check arrives
ConflictResponse ==
  /\ \E r \in pending :
       /\ pending' = pending \ {r}
       /\ \/ warnings' = ConflictResult(warnings, FALSE, "")
          \/ \E m \in ConflictMessages : warnings' = ConflictResult(warnings, TRUE, m)
  /\ toast' = ""
  /\ UNCHANGED <<formData, isSubmitting, selectedDate, metaError, clubs, venues,
                 metaPc, inflight, currentUser, tz, today, tod>>

\* the catch block writing a fresh warnings object instead of spreading prev
ConflictFailureNoSpread ==
  /\ \E r \in pending : pending' = pending \ {r}
  /\ warnings' = [timeline |-> "", conflict |-> MsgNoVerify, venue |-> "",
                  venueType |-> "", hours |-> ""]
  /\ toast' = ""
  /\ UNCHANGED <<formData, isSubmitting, selectedDate, metaError, clubs, venues,
                 metaPc, inflight, currentUser, tz, today, tod>>

\* a conflict check fails: the catch block of checkConflicts
ConflictFailure ==
  /\ \E r \in pending : pending' = pending \ {r}
  /\ warnings' = [warnings EXCEPT !.conflict = MsgNoVerify]
  /\ toast' = ""
  /\ UNCHANGED <<formData, isSubmitting, selectedDate, metaError, clubs, venues,
                 metaPc, inflight, currentUser, tz, today, tod>>

\* the club lookup never reported as failed
ClubUnresolvedNever == FALSE

\* the club lookup of handleSubmit finds nothing: "Invalid club selected"
ClubUnresolved == FindByName(clubs, formData.clubName) = <<>>

\* the venue guard left out
NoVenueSelectedNever == FALSE

\* the venue guard of handleSubmit
NoVenueSelected == Len(formData.venueIds) = 0

\* new Date(`${date}T${time}:00`) is an Invalid Date when a part is '', and
\* toISOString() of an Invalid Date throws a RangeError while the request
\* body is built, before apiRequest is called
InvalidDateTime ==
  formData.date = <<>> \/ formData.startTime = <<>> \/ formData.endTime = <<>>

\* the fields of the body of POST /api/bookings that handleSubmit resolves
SubmitBody ==
  LET selectedClub == FindByName(clubs, formData.clubName)
  IN [clubId |-> IF selectedClub = <<>> THEN Undefined ELSE selectedClub[1].id,
      venueIds |-> formData.venueIds,
      startTime |-> ParseDateTime(formData.date[1], formData.startTime),
      endTime |-> ParseDateTime(formData.date[1], formData.endTime)]

\* handleSubmit up to its await
handleSubmit ==
  /\ IF SubmitBlocked
     THEN toast' = ToastResolve /\ UNCHANGED <<isSubmitting, inflight>>
     ELSE IF AlreadySubmitting
     THEN toast' = "" /\ UNCHANGED <<isSubmitting, inflight>>
     ELSE IF ClubUnresolved
     THEN toast' = ToastFailed /\ UNCHANGED <<isSubmitting, inflight>>
     ELSE IF NoVenueSelected
     THEN toast' = ToastNoVenue /\ UNCHANGED <<isSubmitting, inflight>>
     ELSE IF InvalidDateTime
     THEN toast' = ToastFailed /\ UNCHANGED <<isSubmitting, inflight>>
     ELSE /\ inflight < MaxInflight
          /\ inflight' = inflight + 1
          /\ isSubmitting' = TRUE
          /\ toast' = ""
  /\ UNCHANGED <<formData, warnings, selectedDate, metaError, clubs, venues,
                 metaPc, pending, currentUser, tz, today, tod>>

\* the rest of handleSubmit with the flag reset after the success toast
\* instead of in a finally block
SubmitDoneNoFinally ==
  /\ inflight > 0
  /\ inflight' = inflight - 1
  /\ \/ toast' = ToastSuccess /\ isSubmitting' = FALSE
     \/ toast' = ToastFailed /\ UNCHANGED isSubmitting
  /\ UNCHANGED <<formData, warnings, selectedDate, metaError, clubs, venues,
                 metaPc, pending, currentUser, tz, today, tod>>

\* the rest of handleSubmit without the reset of the flag
SubmitDoneKeepsFlag ==
  /\ inflight > 0
  /\ inflight' = inflight - 1
  /\ toast' \in {ToastSuccess, ToastFailed}
  /\ UNCHANGED isSubmitting
  /\ UNCHANGED <<formData, warnings, selectedDate, metaError, clubs, venues,
                 metaPc, pending, currentUser, tz, today, tod>>

\* POST /api/bookings answers: the rest of handleSubmit
SubmitDone ==
  /\ inflight > 0
  /\ inflight' = inflight - 1
  /\ toast' \in {ToastSuccess, ToastFailed}
  /\ isSubmitting' = FALSE
  /\ UNCHANGED <<formData, warnings, selectedDate, metaError, clubs, venues,
                 metaPc, pending, currentUser, tz, today, tod>>

Next ==
  \/ FetchMetaOk
  \/ FetchMetaFail
  \/ ChangeEventType
  \/ ChangeClub
  \/ ChangeStart
  \/ ChangeEnd
  \/ ToggleVenue
  \/ PickDate
  \/ DateSync
  \/ ConflictResponse
  \/ ConflictFailure
  \/ handleSubmit
  \/ SubmitDone

Spec == Init /\ [][Next]_vars

\* the awaited POST settles: apiRequest resolves or rejects, and the rest of
\* handleSubmit then runs
SpecFair == Spec /\ WF_vars(SubmitDone)

(***************************************************************************)
(* The policies on their own: a user who is not a club and has not yet     *)
(* chosen the organizing club edits the form, so that no conflict check is *)
(* issued, with dates and times on both sides of every boundary.           *)
(***************************************************************************)
InitPolicy == Init /\ currentUser.role # "club"

FetchMetaOkPolicy == FetchMetaOkWith(PolicyApiVenueLists)
PickDatePolicy == PickDateFrom(PolicyDayOffsets)
ChangeStartPolicy == ChangeStartTo(PolicyStartOptions)
ChangeEndPolicy == ChangeEndTo(PolicyEndOptions)

NextPolicy ==
  \/ Tick
  \/ FetchMetaOkPolicy
  \/ ChangeEventType
  \/ ChangeStartPolicy
  \/ ChangeEndPolicy
  \/ ToggleVenue
  \/ PickDatePolicy
  \/ DateSync

SpecPolicy == InitPolicy /\ [][NextPolicy]_vars

(***************************************************************************)
(* The behaviours of Spec with the booking date picked five days ahead:    *)
(* every user, every edit, every answer of the conflict check.             *)
(***************************************************************************)
PickDateLead == PickDateFrom(LeadDayOffsets)
DateSyncLead == DateSyncAbove(MinDayLead)

NextLead ==
  \/ FetchMetaOk
  \/ FetchMetaFail
  \/ ChangeEventType
  \/ ChangeClub
  \/ ChangeStart
  \/ ChangeEnd
  \/ ToggleVenue
  \/ PickDateLead
  \/ DateSyncLead
  \/ ConflictResponse
  \/ ConflictFailure
  \/ handleSubmit
  \/ SubmitDone

SpecLead == Init /\ [][NextLead]_vars

TypeOK ==
  /\ formData.eventType \in EventTypes
  /\ Cardinality(pending) <= MaxPending
  /\ inflight \in 0..MaxInflight
  /\ isSubmitting \in BOOLEAN

(***************************************************************************)
(* Properties.                                                             *)
(***************************************************************************)
\* a check in flight that was built from other inputs than the draft has now
Stale(r) ==
  <<r.date, r.startTime, r.endTime, r.clubName, r.venueIds>> # ConflictDeps(formData)

\* the three blocking slots are empty
SlotsEmpty == warnings.timeline = "" /\ warnings.hours = "" /\ warnings.conflict = ""

DraftTimed == formData.date # <<>> /\ formData.startTime # <<>> /\ formData.endTime # <<>>

\* the day of the week of a calendar day, 0 for Sunday
WeekDayOf(d) == (d + 4) % 7

\* C1: a response to a conflict check that was not built from the current
\* draft never changes the Conflict slot, so that with the checks for D1 and
\* D2 answered in either order the slot ends with D2's result.
C1_StaleResponseIgnored ==
  [][\A r \in pending :
       (pending' = pending \ {r} /\ Stale(r)) => warnings'.conflict = warnings.conflict]_vars

\* C2: a submit attempt calls the booking sink only when the Timeline, Hours
\* and Conflict slots are all empty.
C2_NoSinkCallWhileBlocked == [][inflight' > inflight => SlotsEmpty]_vars

\* a submit attempt was turned down for its warnings and the sink not called
C2_Witness == toast = ToastResolve /\ ~SlotsEmpty /\ inflight = 0

\* C3: at most one request to the booking sink is outstanding.
C3_OneSubmissionInFlight == inflight <= 1

\* a submission is in flight, with the form otherwise ready for another one
C3_Witness ==
  /\ inflight = 1
  /\ isSubmitting
  /\ SlotsEmpty
  /\ Len(formData.venueIds) > 0

\* C4: the form is submittable (the button's hasErrors is false and the
\* first guard of handleSubmit lets the attempt through) exactly when the
\* Timeline, Hours and Conflict slots are all empty, whatever the venue
\* message and its tag are.
C4_SubmittableIffSlotsEmpty ==
  /\ hasErrors <=> ~SlotsEmpty
  /\ SubmitBlocked <=> ~SlotsEmpty

\* the venue warning is shown and the form is submittable
C4_Witness == warnings.venueType = "warning" /\ ~hasErrors /\ DraftTimed

\* C5: once the Conflict slot holds the could-not-verify message it keeps
\* it, and the form stays blocked, until the response to a check built from
\* the current draft arrives.
C5_FailClosedUntilCurrentCheck ==
  [][(warnings.conflict = MsgNoVerify /\ warnings'.conflict # MsgNoVerify)
       => \E r \in pending : pending' = pending \ {r} /\ ~Stale(r)]_vars

\* the lead-time rule on whole calendar days
LeadTimeRule(eventType, days) ==
  IF eventType = "co_curricular" THEN (IF days < 30 THEN MsgCoCurricular ELSE "")
  ELSE IF eventType = "open_all" THEN (IF days < 20 THEN MsgOpenAll ELSE "")
  ELSE (IF days < 1 THEN MsgClosedClub ELSE "")

\* C6: with a date selected, the Timeline slot holds the event type's
\* message when the date is fewer calendar days after today than the type's
\* threshold (30, 20, 1) and is empty otherwise.
C6_LeadTimeByCalendarDays ==
  formData.date # <<>>
    => warnings.timeline = LeadTimeRule(formData.eventType, formData.date[1] - today)

\* C7: diffDays is the difference of the two calendar dates at every time of
\* day at which it is evaluated.
C7_DiffDaysIgnoresTimeOfDay ==
  formData.date # <<>>
    => \A t \in Tods : DiffDays(formData.date, NowAt(t)) = formData.date[1] - today

\* C8: with date, start and end set and end <= start, the Hours slot is the
\* ordering message on every day of the week and for every start time.
C8_OrderingMessage ==
  (DraftTimed /\ TimeMinutes(formData.endTime) <= TimeMinutes(formData.startTime))
    => warnings.hours = MsgOrder

\* the ordering message on a Saturday for a start inside the weekend hours
C8_Witness ==
  /\ DraftTimed
  /\ WeekDayOf(formData.date[1]) = 6
  /\ formData.startTime = T1600
  /\ formData.endTime = T0800
  /\ warnings.hours = MsgOrder

\* C9: with end > start, the Hours slot on a Saturday or Sunday date is the
\* weekend message exactly when start < "08:00", on a Monday-to-Friday date
\* the weekday message exactly when start < "16:00", and empty otherwise.
C9_HoursBoundaries ==
  (DraftTimed /\ TimeMinutes(formData.endTime) > TimeMinutes(formData.startTime))
    => warnings.hours =
         IF WeekDayOf(formData.date[1]) \in {0, 6}
         THEN (IF TimeMinutes(formData.startTime) < 8 * 60 THEN MsgWeekend ELSE "")
         ELSE (IF TimeMinutes(formData.startTime) < 16 * 60 THEN MsgWeekday ELSE "")

\* the category the catalog gives for a selected venue is a restricted one
Restricted(id) ==
  \E i \in 1..Len(venues) :
     venues[i].id = id /\ venues[i].category \in {"B", "needs_approval"}

\* C10: the VenueRouting slot is empty with an empty tag for an empty
\* selection, the warning-tagged Category B message when some selected venue
\* is restricted, and the success-tagged Category A message otherwise.
C10_VenueRouting ==
  <<warnings.venue, warnings.venueType>> =
    IF Len(formData.venueIds) = 0 THEN <<"", "">>
    ELSE IF \E i \in 1..Len(formData.venueIds) : Restricted(formData.venueIds[i])
         THEN <<MsgCategoryB, "warning">>
         ELSE <<MsgCategoryA, "success">>

\* a direct and a restricted venue are selected and the warning is shown
C10_Witness ==
  /\ Len(formData.venueIds) = 2
  /\ \E i \in 1..2 : ~Restricted(formData.venueIds[i])
  /\ warnings.venueType = "warning"

\* The end-to-end draft: a closed-club event two days ahead on a weekday,
\* 17:00 to 18:00, one Direct venue, the checks of the organizing club all
\* answered and the last answer applied reporting no conflict.
C11_Scenario ==
  /\ formData.eventType = "closed_club"
  /\ formData.date = <<today + 2>>
  /\ WeekDayOf(today + 2) \in 1..5
  /\ formData.startTime = T1700
  /\ formData.endTime = T1800
  /\ formData.clubName # ""
  /\ Len(formData.venueIds) = 1
  /\ getVenueCategory(formData.venueIds[1]) = "A"
  /\ pending = {}
  /\ warnings.conflict = ""

C12_CoCurricularFiveDaysBlocked ==
  (formData.eventType = "co_curricular" /\ formData.date = <<today + 5>>) =>
    /\ warnings.timeline = MsgCoCurricular
    /\ hasErrors
    /\ SubmitBlocked

\* the draft is otherwise clean: club, times and venue chosen, the conflict
\* check answered without conflict, the Hours slot empty
C12_Witness ==
  /\ formData.eventType = "co_curricular" /\ formData.date = <<today + 5>>
  /\ formData.clubName # "" /\ formData.startTime = T1700
  /\ Len(formData.venueIds) > 0
  /\ pending = {} /\ warnings.conflict = "" /\ warnings.hours = ""
  /\ hasErrors

\* C13: once the load of clubs and venues has failed, the form is not
\* submittable and no step calls the booking sink.
C13_LoadFailureDisablesSubmission ==
  [][metaError # "" => (hasErrors /\ inflight' <= inflight)]_vars

\* the part of C13 that the code keeps: after a failed load no step calls
\* the booking sink (the club lookup of handleSubmit finds nothing)
C13_NoSinkCallAfterLoadFailure ==
  [][metaError # "" => inflight' <= inflight]_vars

\* C14: a step that ends a submit attempt in failure (the club not resolved,
\* no venue selected, the request body not buildable, or the sink rejecting)
\* changes no draft field and no warning slot and leaves isSubmitting false.
C14_FailedSubmitKeepsDraft ==
  [][toast' \in {ToastFailed, ToastNoVenue} =>
       (formData' = formData /\ warnings' = warnings /\ isSubmitting' = FALSE)]_vars

\* the sink has rejected a complete draft, which is editable and submittable
\* again
C14_Witness ==
  /\ toast = ToastFailed
  /\ ~ClubUnresolved /\ ~InvalidDateTime /\ ~NoVenueSelected
  /\ ~isSubmitting /\ ~hasErrors

\* the catalog identifier of the club of that name
CatalogClubId(name) ==
  LET club == FindByName(ApiClubs, name)
  IN IF club = <<>> THEN "" ELSE club[1].id

\* a step that changes the date, a time, the club or the venue selection and
\* leaves date, times and club all set
C15_DraftChanged ==
  /\ ConflictDeps(formData') # ConflictDeps(formData)
  /\ ~ConflictInputMissing(formData')

\* C15: every such step issues a conflict query whose time window, club and
\* venue filter are those of the changed draft.
C15_QueryOfChangedDraft ==
  [][C15_DraftChanged =>
       \E q \in pending' :
         /\ q.startISO = ParseDateTime(formData'.date[1], formData'.startTime)
         /\ q.endISO = ParseDateTime(formData'.date[1], formData'.endTime)
         /\ q.venueIds = formData'.venueIds
         /\ q.clubId = CatalogClubId(formData'.clubName)]_vars

\* the part of C15 that the code keeps: every such step issues a query with
\* the time window and the venue filter of the changed draft
C15_QueryReissued ==
  [][C15_DraftChanged =>
       \E q \in pending' :
         /\ q.startISO = ParseDateTime(formData'.date[1], formData'.startTime)
         /\ q.endISO = ParseDateTime(formData'.date[1], formData'.endTime)
         /\ q.venueIds = formData'.venueIds]_vars

\* C16: the Timeline, Hours and VenueRouting slots are a function of the
\* draft, the catalog and today alone: in every state they are what an
\* evaluation of the three policies on the present draft, catalog and day
\* yields, whatever the edits and the hour at which the slots were written.
C16_SyncVerdictDeterministic ==
  /\ TimelineEffect(formData, warnings).timeline = warnings.timeline
  /\ HoursEffect(formData, warnings).hours = warnings.hours
  /\ VenueEffect(formData, warnings).venue = warnings.venue
  /\ VenueEffect(formData, warnings).venueType = warnings.venueType

\* the part of C16 that the code keeps: the Hours and VenueRouting slots
\* are a function of the draft and the catalog
C16_HoursAndVenueDeterministic ==
  /\ HoursEffect(formData, warnings).hours = warnings.hours
  /\ VenueEffect(formData, warnings).venue = warnings.venue
  /\ VenueEffect(formData, warnings).venueType = warnings.venueType

\* C17: the booking sink is never called with an empty venueIds list, and a
\* submit attempt that ends on the venue guard does not call it.
C17_NoSinkCallWithoutVenue ==
  [][/\ inflight' > inflight => Len(formData.venueIds) > 0
     /\ toast' = ToastNoVenue => inflight' = inflight]_vars

\* an attempt on a draft complete but for its venues has ended on the guard
C17_Witness ==
  /\ toast = ToastNoVenue
  /\ Len(formData.venueIds) = 0
  /\ ~ClubUnresolved /\ ~InvalidDateTime /\ ~hasErrors
  /\ inflight = 0

\* the identifiers of a selection
IdsOf(ids) == {ids[i] : i \in 1..Len(ids)}

\* C18: every step that changes the venue selection adds one identifier not
\* yet selected or removes one selected identifier, and leaves a selection
\* that holds no identifier twice.
C18_VenueIdsDistinct ==
  [][formData'.venueIds # formData.venueIds =>
       /\ Cardinality(IdsOf(formData'.venueIds)) = Len(formData'.venueIds)
       /\ \E i \in 1..Len(venues) :
            LET id == venues[i].id
            IN \/ /\ id \in IdsOf(formData.venueIds)
                  /\ IdsOf(formData'.venueIds) = IdsOf(formData.venueIds) \ {id}
               \/ /\ id \notin IdsOf(formData.venueIds)
                  /\ IdsOf(formData'.venueIds) = IdsOf(formData.venueIds) \cup {id}]_vars

\* both venues selected, the second of the catalog first
C18_Witness ==
  /\ Len(formData.venueIds) = 2
  /\ formData.venueIds[1] = venues[2].id
  /\ formData.venueIds[2] = venues[1].id

\* a step that applies an answer of the conflict check with hasConflict true
C19_ConflictAnswerApplied ==
  \E r \in pending : \E m \in ConflictMessages :
    /\ pending' = pending \ {r}
    /\ warnings' = ConflictResult(warnings, TRUE, m)

\* a step that applies an answer with hasConflict false
C19_ClearAnswerApplied ==
  \E r \in pending :
    /\ pending' = pending \ {r}
    /\ warnings' = ConflictResult(warnings, FALSE, "")

\* C19: every applied answer with hasConflict true leaves the Conflict slot
\* non-empty and the form not submittable, also when its message is empty or
\* absent; an answer with hasConflict false leaves the slot empty.
C19_ConflictAnswerBlocks ==
  [][/\ C19_ConflictAnswerApplied => (warnings'.conflict # "" /\ hasErrors')
     /\ C19_ClearAnswerApplied => warnings'.conflict = ""]_vars

\* C20: a step calls the booking sink only when no conflict check for the
\* draft's present date, times, club and venues is outstanding and the
\* Conflict slot reports no conflict.
C20_SubmitOnlyAfterCurrentCheck ==
  [][inflight' > inflight =>
       /\ \A r \in pending : Stale(r)
       /\ warnings.conflict = ""]_vars

\* C21: every conflict query in flight carries as clubId the catalog
\* identifier of the organizing club it was built for, never the empty
\* string, also when the draft was completed before the catalog arrived.
C21_QueryCarriesClubId ==
  \A r \in pending :
    /\ r.clubId # ""
    /\ r.clubId = CatalogClubId(r.clubName)

\* a step in which an answer or a failure of a conflict check arrives
C22_CheckEnds == pending' # pending /\ pending' \subseteq pending

\* C22: each policy writes its own slot only. A step in which a conflict
\* check ends changes no draft field and no slot but Conflict; the Timeline,
\* Hours and VenueRouting slots change only in a step that changes an input
\* of their own policy, and an edit changes the Conflict slot only when it
\* changes an input of the conflict policy.
C22_PoliciesWriteOwnSlot ==
  [][/\ C22_CheckEnds =>
          /\ formData' = formData
          /\ warnings'.timeline = warnings.timeline
          /\ warnings'.hours = warnings.hours
          /\ warnings'.venue = warnings.venue
          /\ warnings'.venueType = warnings.venueType
     /\ warnings'.timeline # warnings.timeline =>
          TimelineDeps(formData') # TimelineDeps(formData)
     /\ warnings'.hours # warnings.hours =>
          HoursDeps(formData') # HoursDeps(formData)
     /\ (warnings'.venue # warnings.venue \/ warnings'.venueType # warnings.venueType) =>
          VenueDeps(formData') # VenueDeps(formData)
     /\ (warnings'.conflict # warnings.conflict /\ ~C22_CheckEnds) =>
          ConflictDeps(formData') # ConflictDeps(formData)]_vars

\* all four slots hold a message at once, the Conflict slot that of a
\* failed check
C22_Witness ==
  /\ warnings.conflict = MsgNoVerify
  /\ warnings.timeline # ""
  /\ warnings.hours # ""
  /\ warnings.venueType = "warning"

\* C23: no policy reports while an input it needs is missing. The Timeline
\* slot is empty while no date is selected, the Hours slot while date, start
\* or end is missing, the Conflict slot while date, start, end or club is
\* missing.
C23_SilentWhileInputMissing ==
  /\ formData.date = <<>> => warnings.timeline = ""
  /\ ~DraftTimed => warnings.hours = ""
  /\ ConflictInputMissing(formData) => warnings.conflict = ""

\* a co-curricular draft starting at 15:45 with its club and end time set
\* and no date yet: every rule would report once the date is there
C23_Witness ==
  /\ formData.date = <<>>
  /\ formData.eventType = "co_curricular"
  /\ formData.startTime = T1545 /\ formData.endTime # <<>>
  /\ formData.clubName # ""
  /\ SlotsEmpty

\* C24: every step that calls the booking sink sends as clubId the catalog
\* identifier of the club named by the draft, and a submit attempt on a
\* draft whose club no catalog entry names does not call the sink.
C24_SubmissionCarriesCatalogClubId ==
  [][/\ inflight' > inflight =>
          /\ SubmitBody.clubId = CatalogClubId(formData.clubName)
          /\ SubmitBody.clubId # ""
     /\ FindByName(clubs, formData.clubName) = <<>> => inflight' <= inflight]_vars

\* a user who is not a club has chosen the club and the request is in
\* flight with that club's identifier
C24_Witness ==
  /\ inflight = 1
  /\ currentUser.role # "club"
  /\ SubmitBody.clubId = CatalogClubId(formData.clubName)
  /\ SubmitBody.clubId # ""

\* C25: the two date effects are at rest on the picked day. Whenever the
\* draft has a date, the selected Date object formats to that same date, so
\* no further run of the effects changes the draft's date.
C25_DateSyncSettled ==
  formData.date # <<>> =>
    /\ selectedDate # <<>>
    /\ <<LocalDay(selectedDate[1])>> = formData.date

\* C26: every submit attempt that sets isSubmitting clears it again: the
\* flag is set only while a request to the sink is awaited, and it is false
\* again once the request has settled.
C26_SubmittingEventuallyCleared == isSubmitting ~> ~isSubmitting

\* the flag is up exactly while a request is awaited
C26_FlagFollowsRequest == isSubmitting <=> inflight > 0

\* an attempt has ended in a rejection of the sink and the flag is down
C26_Witness == toast = ToastFailed /\ ~isSubmitting /\ inflight = 0 /\ ~ClubUnresolved

====
